---- MODULE Spec2Model ----
(***************************************************************************)
(* JARVIS market console (src/services/geminiService.ts): the candle       *)
(* window fed by the Binance kline stream or, after failover, by the       *)
(* Coinbase ticker stream; the EMA indicators recomputed on every update;  *)
(* the single-flight analysis cycle (runAnalysis) with its memory stream   *)
(* persisted in localStorage.                                              *)
(*                                                                         *)
(* Numbers: JavaScript numbers are modelled as integers.  Prices and EMA   *)
(* values are fixed-point (divisions truncate); times are milliseconds.    *)
(* React state is modelled by its resolved value (functional updaters      *)
(* applied in call order); the refs mirror it only when the effects of a   *)
(* commit have run (action Commit).  The chat transcript, the hotspot      *)
(* panel and the input box are display state and are not modelled.         *)
(***************************************************************************)
EXTENDS Integers, Sequences, FiniteSets, TLC

\* ------------------------------------------------------------ constants
MAX_CANDLES == 120
INTERVAL_MS == 60000
MIN_CANDLES == 10
MEMORY_CAP == 20
LESSON_MIN_LEN == 5
EMA_FAST == 7
EMA_MID == 25
EMA_SLOW == 99
VOL_DAY_MINUTES == 1440
VOL_MINUTE_SECONDS == 60

\* An optional number that is absent (ema7?: number left undefined).
Undefined == -1
\* new Date(undefined).getTime(): the time of a ticker without a time field.
NaN == -2

\* ------------------------------------------------------------ bounds
\* events from outside in one run of the model: feed messages delivered,
\* analysis cycles started by the timer or by hand, chat requests sent
MaxEvents == 3

\* ------------------------------------------------------------ JS helpers
\* a === b on numbers: NaN equals nothing, itself included
StrictEq(a, b) == a # NaN /\ b # NaN /\ a = b

\* a < b on numbers: every comparison with NaN is false
JsLess(a, b) == a # NaN /\ b # NaN /\ a < b

MathMax(a, b) == IF a >= b THEN a ELSE b

MathMin(a, b) == IF a <= b THEN a ELSE b

\* arr.slice(-n)
SliceLast(arr, n) ==
  IF Len(arr) <= n THEN arr ELSE SubSeq(arr, Len(arr) - n + 1, Len(arr))

\* ------------------------------------------------------------ indicators
\* The two loops of calculateEMA run over index ranges; the ranges are
\* split in halves so that the evaluation depth stays logarithmic.  The
\* values are those of the loops, step by step and in index order.

\* for (i = 0; i < period; i++) sum += data[i].close, over lo..hi
RECURSIVE SumClose(_, _, _)
SumClose(data, lo, hi) ==
  IF lo > hi THEN 0
  ELSE IF lo = hi THEN data[lo].close
  ELSE LET mid == (lo + hi) \div 2
       IN SumClose(data, lo, mid) + SumClose(data, mid + 1, hi)

\* ema = close * k + ema * (1 - k), with k = 2 / (period + 1)
\* mutant: k = 2 / period
EmaStep_WrongK(close, ema, period) == (2 * close + (period - 2) * ema) \div period

EmaStep(close, ema, period) == (2 * close + (period - 1) * ema) \div (period + 1)

\* for (i = period; i < data.length; i++) { ema = ...; result.push(ema) },
\* over lo..hi, entered with ema
RECURSIVE EmaLoop(_, _, _, _, _)
EmaLoop(data, period, lo, hi, ema) ==
  IF lo > hi THEN <<>>
  ELSE IF lo = hi THEN <<EmaStep(data[lo].close, ema, period)>>
  ELSE LET mid == (lo + hi) \div 2
           left == EmaLoop(data, period, lo, mid, ema)
       IN left \o EmaLoop(data, period, mid + 1, hi, left[Len(left)])

\* mutant: Array(period - 1).fill(ema), the prefix holds the seed
calculateEMA_FilledPrefix(data, period) ==
  IF Len(data) < period THEN [i \in 1..Len(data) |-> Undefined]
  ELSE LET seed == SumClose(data, 1, period) \div period
       IN [i \in 1..(period - 1) |-> seed] \o <<seed>>
          \o EmaLoop(data, period, period + 1, Len(data), seed)

calculateEMA(data, period) ==
  IF Len(data) < period THEN [i \in 1..Len(data) |-> Undefined]
  ELSE LET seed == SumClose(data, 1, period) \div period
       IN [i \in 1..(period - 1) |-> Undefined] \o <<seed>>
          \o EmaLoop(data, period, period + 1, Len(data), seed)

\* ------------------------------------------------------------ candle store
\* mutant: updated.slice(0, MAX_CANDLES), which drops the newest candle
EnforceWindow_KeepOldest(updated) ==
  IF Len(updated) > MAX_CANDLES THEN SubSeq(updated, 1, MAX_CANDLES) ELSE updated

\* if (updated.length > MAX_CANDLES) updated = updated.slice(length - MAX)
EnforceWindow(updated) ==
  IF Len(updated) > MAX_CANDLES THEN SliceLast(updated, MAX_CANDLES) ELSE updated

\* mutant: the candles keep the indicator values they carried
RecalcEMAs_Stale(updated) == updated

RecalcEMAs(updated) ==
  LET ema7 == calculateEMA(updated, EMA_FAST)
      ema25 == calculateEMA(updated, EMA_MID)
      ema99 == calculateEMA(updated, EMA_SLOW)
  IN [i \in 1..Len(updated) |->
        [updated[i] EXCEPT !.ema7 = ema7[i], !.ema25 = ema25[i], !.ema99 = ema99[i]]]

\* a candle as the Binance handler builds it: no indicator, no signal yet
NewCandle(t, o, h, l, c, v) ==
  [time |-> t, open |-> o, high |-> h, low |-> l, close |-> c, volume |-> v,
   ema7 |-> Undefined, ema25 |-> Undefined, ema99 |-> Undefined,
   aiSignal |-> "none"]

SameAsLast(prev, t) == Len(prev) > 0 /\ StrictEq(prev[Len(prev)].time, t)

\* mutant: the forming candle is replaced by the new one, signal included
MergeCandle_DropSignal(last, newCandle) == newCandle

\* { ...newCandle, aiSignal: lastCandle.aiSignal }
MergeCandle(last, newCandle) == [newCandle EXCEPT !.aiSignal = last.aiSignal]

updateCandles(prev, newCandle) ==
  LET merged ==
        IF SameAsLast(prev, newCandle.time)
        THEN [prev EXCEPT ![Len(prev)] = MergeCandle(prev[Len(prev)], newCandle)]
        ELSE Append(prev, newCandle)
  IN RecalcEMAs(EnforceWindow(merged))

\* Math.floor(time / 60000) * 60000
BucketOf(time) == IF time = NaN THEN NaN ELSE (time \div INTERVAL_MS) * INTERVAL_MS

\* mutant: the tick's slice of volume replaces the candle's volume
MergeTick_NoSum(last, price, vol) ==
  [last EXCEPT !.high = MathMax(last.high, price),
               !.low = MathMin(last.low, price),
               !.close = price,
               !.volume = vol \div VOL_MINUTE_SECONDS]

\* mutant: the low of the candle does not follow the price
MergeTick_StaleLow(last, price, vol) ==
  [last EXCEPT !.high = MathMax(last.high, price),
               !.close = price,
               !.volume = last.volume + (vol \div VOL_MINUTE_SECONDS)]

\* mutant: the close of the candle does not follow the price
MergeTick_StaleClose(last, price, vol) ==
  [last EXCEPT !.high = MathMax(last.high, price),
               !.low = MathMin(last.low, price),
               !.volume = last.volume + (vol \div VOL_MINUTE_SECONDS)]

\* { ...lastCandle, high: Math.max(..), low: Math.min(..), close: price,
\*   volume: lastCandle.volume + (vol / 60) }
MergeTick(last, price, vol) ==
  [last EXCEPT !.high = MathMax(last.high, price),
               !.low = MathMin(last.low, price),
               !.close = price,
               !.volume = last.volume + (vol \div VOL_MINUTE_SECONDS)]

aggregateCandleLocally(prev, price, time, vol) ==
  LET candleTime == BucketOf(time)
      merged ==
        IF SameAsLast(prev, candleTime)
        THEN [prev EXCEPT ![Len(prev)] = MergeTick(prev[Len(prev)], price, vol)]
        ELSE Append(prev, NewCandle(candleTime, price, price, price, price,
                                    vol \div VOL_MINUTE_SECONDS))
  IN RecalcEMAs(EnforceWindow(merged))

\* ------------------------------------------------------------ state
VARIABLES
  candleData,            \* useState<CandleData[]>
  currentPrice,          \* useState<number>
  candleDataRef,         \* useRef mirror of candleData
  currentPriceRef,       \* useRef mirror of currentPrice
  systemState,           \* useState<SystemState>
  analysis,              \* useState<MarketAnalysis | null>
  dataSource,            \* 'Binance' | 'Coinbase' | 'None'
  memoryStream,          \* useState<string[]>
  memDirty,              \* memoryStream was set since the last commit
  storage,               \* localStorage item 'jarvis_memory'
  isLearning,
  latency,
  sockets,               \* every WebSocket created so far, in creation order
  wsRef,                 \* index into sockets of wsRef.current, 0 when null
  fallbackTimeout,       \* "unset" | "armed" | "cleared" | "fired"
  analysisInProgressRef,
  cycles,                \* runAnalysis invocations past the guard, in flight
  chatsPending,          \* handleSendMessage invocations awaiting the reply
  mounted,               \* the mount effects have run
  exchTime,              \* the exchange's current minute (ms)
  history,               \* every lesson ever put into memoryStream, in order
  calls                  \* counters: events delivered and collaborator calls

candleVars == <<candleData, currentPrice, candleDataRef, currentPriceRef>>

feedVars == <<sockets, wsRef, fallbackTimeout, dataSource, latency>>

memVars == <<memoryStream, memDirty, storage, history>>

schedVars == <<analysis, isLearning, analysisInProgressRef, cycles>>

vars == <<candleData, currentPrice, candleDataRef, currentPriceRef, systemState,
          analysis, dataSource, memoryStream, memDirty, storage, isLearning,
          latency, sockets, wsRef, fallbackTimeout, analysisInProgressRef,
          cycles, chatsPending, mounted, exchTime, history, calls>>

\* ------------------------------------------------------------ texts
\* A lesson text: who produced it and its length in characters.
Lesson(id, len) == [id |-> id, len |-> len]

\* '数据积累中...' (the default when the reply has no learningNode)
DefaultLesson == Lesson(0, 8)

\* '保持观望' (the reply could not be parsed)
ParseFailLesson == Lesson(0, 4)

\* '连接中断' (the collaborator could not be reached)
UnreachableLesson == Lesson(0, 4)

\* ------------------------------------------------------------ sockets
Socket(kind) ==
  [kind |-> kind, readyState |-> "CONNECTING", failed |-> FALSE, subscribed |-> 0]

\* mutant: the socket being replaced is not closed
CloseSocket_Noop(s) == s

\* ws.close(): a connection not yet established fails (its error event is
\* still to come); an open one starts the closing handshake
CloseSocket(s) ==
  IF s.readyState = "CONNECTING"
  THEN [s EXCEPT !.readyState = "CLOSING", !.failed = TRUE]
  ELSE IF s.readyState = "OPEN" THEN [s EXCEPT !.readyState = "CLOSING"]
  ELSE s

\* if (wsRef.current) wsRef.current.close()
CloseCurrent(socks, ref) ==
  IF ref = 0 THEN socks ELSE [socks EXCEPT ![ref] = CloseSocket(socks[ref])]

\* mutant: connectCoinbase without wsRef.current = ws
connectCoinbase_NoRef(socks, ref) ==
  [sockets |-> Append(CloseCurrent(socks, ref), Socket("Coinbase")), wsRef |-> ref]

\* connectCoinbase(): the sockets and wsRef after the call
connectCoinbase(socks, ref) ==
  [sockets |-> Append(CloseCurrent(socks, ref), Socket("Coinbase")),
   wsRef |-> Len(socks) + 1]

\* connectBinance(): the sockets and wsRef after the call
connectBinance(socks, ref) ==
  [sockets |-> Append(CloseCurrent(socks, ref), Socket("Binance")),
   wsRef |-> Len(socks) + 1]

\* the socket can still deliver an error event
CanError(s) ==
  s.readyState \in {"CONNECTING", "OPEN"} \/ (s.readyState = "CLOSING" /\ s.failed)

Bump(counter) == [calls EXCEPT ![counter] = @ + 1]

\* ------------------------------------------------------------ inputs
\* what the feeds and the collaborators can deliver
NominalPrice == 100

FlatShape ==
  [open |-> NominalPrice, high |-> NominalPrice, low |-> NominalPrice,
   close |-> NominalPrice, volume |-> 1]

RangeShape ==
  [open |-> NominalPrice, high |-> 130, low |-> 90, close |-> 120, volume |-> 2]

\* Binance kline events: the minute the candle opens (dt: relative to the
\* latest minute the exchange has reported), its OHLCV, whether the event
\* carries E, and now - E (the browser clock may run behind the exchange's)
KlineEvents ==
  {[dt |-> INTERVAL_MS, shape |-> FlatShape, hasE |-> TRUE, lag |-> 20],
   [dt |-> 0, shape |-> RangeShape, hasE |-> FALSE, lag |-> 0],
   [dt |-> 0 - INTERVAL_MS, shape |-> FlatShape, hasE |-> TRUE, lag |-> 0 - 5]}

\* Coinbase tickers: price, time (dt: relative to the latest minute the
\* exchange has reported; hasTime FALSE for a ticker without the field),
\* volume_24h (0 for a ticker without the field) and now - time
TickerEvents ==
  {[price |-> 130, hasTime |-> TRUE, dt |-> 90000, vol24h |-> 172800, lag |-> 20],
   [price |-> 90, hasTime |-> TRUE, dt |-> 30000, vol24h |-> 0, lag |-> 0 - 5],
   [price |-> NominalPrice, hasTime |-> FALSE, dt |-> 0, vol24h |-> 172800, lag |-> 0],
   [price |-> 130, hasTime |-> TRUE, dt |-> 0 - 30000, vol24h |-> 172800, lag |-> 20]}

\* new Date(data.time).getTime()
TickerTime(e) == IF e.hasTime THEN exchTime + e.dt ELSE NaN

NominalCandle(k) ==
  NewCandle(k * INTERVAL_MS, NominalPrice, NominalPrice, NominalPrice,
            NominalPrice, 1)

\* the window after the first n minutes (n <= MAX_CANDLES) of an uneventful
\* Binance stream: updateCandles applied to NominalCandle(1), ..., (n)
WarmWindow(n) == RecalcEMAs([k \in 1..n |-> NominalCandle(k)])

\* lessons saved by an earlier session
SavedLessons(m) == [i \in 1..m |-> Lesson(0 - i, 6)]

\* events from outside so far (see MaxEvents), and cycles started by the
\* startup trigger
NoCalls == [events |-> 0, startups |-> 0]

\* ------------------------------------------------------------ initial states
\* The page before its mount effects have run; localStorage holds what an
\* earlier session left there (nothing, or up to MEMORY_CAP lessons).
InitCold ==
  /\ candleData = <<>>
  /\ currentPrice = 0
  /\ candleDataRef = <<>>
  /\ currentPriceRef = 0
  /\ systemState = "CONNECTING"
  /\ analysis = <<>>
  /\ dataSource = "None"
  /\ memoryStream = <<>>
  /\ memDirty = FALSE
  /\ storage \in {[present |-> FALSE, items |-> <<>>],
                  [present |-> TRUE, items |-> <<>>],
                  [present |-> TRUE, items |-> SavedLessons(2)]}
  /\ isLearning = FALSE
  /\ latency = 0
  /\ sockets = <<>>
  /\ wsRef = 0
  /\ fallbackTimeout = "unset"
  /\ analysisInProgressRef = FALSE
  /\ cycles = <<>>
  /\ chatsPending = 0
  /\ mounted = FALSE
  /\ exchTime = 0
  /\ history = <<>>
  /\ calls = NoCalls

\* the result of the first analysis cycle of a session that is past
\* MIN_CANDLES candles: here the reply could not be parsed (no tag, no lesson)
FirstAnalysis == [sentiment |-> "NEUTRAL", learningNode |-> ParseFailLesson]

\* The page after mount, the Binance socket open, n uneventful minutes of
\* klines committed, and m lessons loaded from localStorage.
InitWarm(n, m, used) ==
  /\ candleData = WarmWindow(n)
  /\ currentPrice = NominalPrice
  /\ candleDataRef = candleData
  /\ currentPriceRef = NominalPrice
  /\ systemState = "IDLE"
  /\ analysis = IF n > MIN_CANDLES THEN <<FirstAnalysis>> ELSE <<>>
  /\ dataSource = "Binance"
  /\ memoryStream = SavedLessons(m)
  /\ memDirty = FALSE
  /\ storage = [present |-> TRUE, items |-> SavedLessons(m)]
  /\ isLearning = FALSE
  /\ latency = 20
  /\ sockets = <<[Socket("Binance") EXCEPT !.readyState = "OPEN"]>>
  /\ wsRef = 1
  /\ fallbackTimeout = "cleared"
  /\ analysisInProgressRef = FALSE
  /\ cycles = <<>>
  /\ chatsPending = 0
  /\ mounted = TRUE
  /\ exchTime = n * INTERVAL_MS
  /\ history = SavedLessons(m)
  /\ calls = [NoCalls EXCEPT !.events = used]

\* warm starts: just below the analysis threshold, a window at its
\* capacity, and a memory one below its capacity; `used` is the part of
\* MaxEvents the start counts as spent
WarmStarts ==
  {[n |-> MIN_CANDLES - 1, m |-> 0, used |-> 0],
   [n |-> MAX_CANDLES, m |-> 0, used |-> 1],
   [n |-> MIN_CANDLES, m |-> MEMORY_CAP - 1, used |-> 0]}

Init == InitCold \/ \E w \in WarmStarts : InitWarm(w.n, w.m, w.used)

\* ------------------------------------------------------------ scheduler
\* mutant: the guard forgets the in-progress flag
RunGuard_NoFlag(inProgress, refLen) == refLen < MIN_CANDLES

\* mutant: runAnalysis also returns when the feed has failed
RunGuard_StopsOnError(inProgress, refLen) ==
  inProgress \/ refLen < MIN_CANDLES \/ systemState = "ERROR"

\* mutant: nine candles are enough to start
RunGuard_NineCandles(inProgress, refLen) == inProgress \/ refLen < MIN_CANDLES - 1

\* if (analysisInProgressRef.current || candleDataRef.current.length < 10) return
RunGuard(inProgress, refLen) == inProgress \/ refLen < MIN_CANDLES

\* if (!analysis && candleData.length > 10) runAnalysis()
StartupTrigger(an, len) == an = <<>> /\ len > MIN_CANDLES

\* runAnalysis() up to its first await (the call of analyzeMarketStrategy),
\* called with the ref holding refLen candles; byStartup tells whether the
\* startup trigger made the call
RunAnalysisCall(refLen, byStartup) ==
  IF RunGuard(analysisInProgressRef, refLen)
  THEN UNCHANGED <<schedVars, systemState, calls>>
  ELSE /\ analysisInProgressRef' = TRUE
       /\ systemState' = "ANALYZING"
       /\ isLearning' = TRUE
       /\ cycles' = Append(cycles, [pc |-> "analyze"])
       /\ analysis' = analysis
       /\ calls' = IF byStartup THEN Bump("startups") ELSE Bump("events")

\* setInterval(runAnalysis, ANALYSIS_INTERVAL_MS)
IntervalFires ==
  /\ mounted
  /\ calls.events < MaxEvents
  /\ RunAnalysisCall(Len(candleDataRef), FALSE)
  /\ UNCHANGED <<candleVars, feedVars, memVars, chatsPending, mounted, exchTime>>

\* onClick={() => runAnalysis()}
ManualRun ==
  /\ mounted
  /\ calls.events < MaxEvents
  /\ RunAnalysisCall(Len(candleDataRef), FALSE)
  /\ UNCHANGED <<candleVars, feedVars, memVars, chatsPending, mounted, exchTime>>

\* ------------------------------------------------------------ mount, commit
\* The effects of the first commit, in declaration order: load the saved
\* memory (a state update, applied by the next render), persist the memory
\* of this render (the initial []), sync the refs, connectBinance and arm
\* the fallback timer; the startup trigger sees an empty window.
Mount ==
  /\ ~mounted
  /\ mounted' = TRUE
  /\ IF storage.present
     THEN /\ memoryStream' = storage.items
          /\ history' = storage.items
          /\ memDirty' = TRUE
     ELSE UNCHANGED <<memoryStream, history, memDirty>>
  /\ storage' = [present |-> TRUE, items |-> <<>>]
  /\ candleDataRef' = candleData
  /\ currentPriceRef' = currentPrice
  /\ LET c == connectBinance(sockets, wsRef)
     IN sockets' = c.sockets /\ wsRef' = c.wsRef
  /\ fallbackTimeout' = "armed"
  /\ UNCHANGED <<candleData, currentPrice, systemState, schedVars, dataSource,
                 latency, chatsPending, exchTime, calls>>

\* A render with its effects: persist the memory if it was set, sync the
\* refs, and run the startup trigger if the window length changed.
Commit ==
  /\ mounted
  /\ memDirty \/ candleData # candleDataRef \/ currentPrice # currentPriceRef
  /\ IF memDirty
     THEN storage' = [present |-> TRUE, items |-> memoryStream]
     ELSE storage' = storage
  /\ memDirty' = FALSE
  /\ candleDataRef' = candleData
  /\ currentPriceRef' = currentPrice
  /\ IF Len(candleData) # Len(candleDataRef)
        /\ StartupTrigger(analysis, Len(candleData))
     THEN RunAnalysisCall(Len(candleData), TRUE)
     ELSE UNCHANGED <<schedVars, systemState, calls>>
  /\ UNCHANGED <<candleData, currentPrice, feedVars, memoryStream, history,
                 chatsPending, mounted, exchTime>>

\* ------------------------------------------------------------ analysis cycle
\* sentiment texts: "BULLISH" is '看涨 (BULLISH)', "BEARISH" is '看跌 (BEARISH)',
\* "NEUTRAL" is '中性 (NEUTRAL)', "INTERFERENCE" is '信号干扰'; "" is a reply
\* without the field
\* what the analysis collaborator can do: fail, answer text that is no JSON,
\* or answer JSON with a sentiment and a learningNode of len characters
Outcomes ==
  {[kind |-> "unreachable", sentiment |-> "", len |-> 0],
   [kind |-> "unparsable", sentiment |-> "", len |-> 0],
   [kind |-> "parsed", sentiment |-> "BULLISH", len |-> 6],
   [kind |-> "parsed", sentiment |-> "BEARISH", len |-> 5],
   [kind |-> "parsed", sentiment |-> "", len |-> 0],
   [kind |-> "parsed", sentiment |-> "BEARISH-BULLISH", len |-> 0],
   [kind |-> "parsed", sentiment |-> "SIDEWAYS", len |-> 5]}

\* mutant: one catch for both failures, the parse failure included
analyzeMarketStrategy_OneCatch(outcome, id) ==
  IF outcome.kind \in {"unreachable", "unparsable"}
  THEN [sentiment |-> "INTERFERENCE", learningNode |-> UnreachableLesson]
  ELSE [sentiment |-> IF outcome.sentiment = "" THEN "NEUTRAL" ELSE outcome.sentiment,
        learningNode |-> IF outcome.len = 0 THEN DefaultLesson
                         ELSE Lesson(id, outcome.len)]

\* mutant: a failure carries the lesson of a reply that had none
analyzeMarketStrategy_FailureTeaches(outcome, id) ==
  IF outcome.kind = "unreachable"
  THEN [sentiment |-> "INTERFERENCE", learningNode |-> DefaultLesson]
  ELSE IF outcome.kind = "unparsable"
  THEN [sentiment |-> "NEUTRAL", learningNode |-> DefaultLesson]
  ELSE [sentiment |-> IF outcome.sentiment = "" THEN "NEUTRAL" ELSE outcome.sentiment,
        learningNode |-> IF outcome.len = 0 THEN DefaultLesson
                         ELSE Lesson(id, outcome.len)]

\* analyzeMarketStrategy: the result for what the collaborator did; `id`
\* identifies the lesson text of this reply
analyzeMarketStrategy(outcome, id) ==
  IF outcome.kind = "unreachable"
  THEN [sentiment |-> "INTERFERENCE", learningNode |-> UnreachableLesson]
  ELSE IF outcome.kind = "unparsable"
  THEN [sentiment |-> "NEUTRAL", learningNode |-> ParseFailLesson]
  ELSE [sentiment |-> IF outcome.sentiment = "" THEN "NEUTRAL" ELSE outcome.sentiment,
        learningNode |-> IF outcome.len = 0 THEN DefaultLesson
                         ELSE Lesson(id, outcome.len)]

\* the keywords a sentiment text contains
Words(text) ==
  IF text = "BEARISH-BULLISH" THEN {"BEARISH", "BULLISH"} ELSE {text}

\* text.includes(keyword)
Includes(text, keyword) == keyword \in Words(text)

\* mutant: the bearish keyword is looked for first
SignalOf_BearishFirst(sentiment) ==
  IF Includes(sentiment, "BEARISH") THEN "bearish"
  ELSE IF Includes(sentiment, "BULLISH") THEN "bullish"
  ELSE "none"

\* sentiment.includes('看涨') || sentiment.includes('BULLISH'), else bearish
SignalOf(sentiment) ==
  IF Includes(sentiment, "BULLISH") THEN "bullish"
  ELSE IF Includes(sentiment, "BEARISH") THEN "bearish"
  ELSE "none"

\* mutant: the signal goes onto every candle of the window
stampSignal_All(prev, sentiment) ==
  IF Len(prev) > 0 /\ SignalOf(sentiment) # "none"
  THEN [k \in 1..Len(prev) |-> [prev[k] EXCEPT !.aiSignal = SignalOf(sentiment)]]
  ELSE prev

\* the Stamp Signal updater
stampSignal(prev, sentiment) ==
  IF Len(prev) > 0 /\ SignalOf(sentiment) # "none"
  THEN [prev EXCEPT ![Len(prev)].aiSignal = SignalOf(sentiment)]
  ELSE prev

\* mutant: a lesson of exactly the threshold length is kept too
WorthRemembering_AtThreshold(lesson) == lesson.len >= LESSON_MIN_LEN

\* result.learningNode && result.learningNode.length > 5
WorthRemembering(lesson) == lesson.len > LESSON_MIN_LEN

\* mutant: slice(0, 20), which keeps the oldest lessons
appendMemory_KeepOldest(prev, lesson) ==
  LET all == Append(prev, lesson)
  IN IF Len(all) > MEMORY_CAP THEN SubSeq(all, 1, MEMORY_CAP) ELSE all

\* [...prev, result.learningNode].slice(-20)
appendMemory(prev, lesson) == SliceLast(Append(prev, lesson), MEMORY_CAP)

RemoveAt(seq, i) == SubSeq(seq, 1, i - 1) \o SubSeq(seq, i + 1, Len(seq))

\* mutant: the hotspot call is made before the result is applied to the
\* window and the memory
AnalysisSettles_HotspotsFirst(i, outcome) ==
  /\ cycles[i].pc = "analyze"
  /\ analysis' = <<analyzeMarketStrategy(outcome, Len(history) + 1)>>
  /\ systemState' = "SCANNING"
  /\ cycles' = [cycles EXCEPT ![i].pc = "hotspots"]
  /\ UNCHANGED <<candleVars, feedVars, memVars, isLearning, analysisInProgressRef,
                 chatsPending, mounted, exchTime, calls>>

\* the analysis collaborator settles: setAnalysis, stamp the signal, log the
\* lesson, then call the hotspot collaborator
AnalysisSettles(i, outcome) ==
  /\ cycles[i].pc = "analyze"
  /\ LET result == analyzeMarketStrategy(outcome, Len(history) + 1)
     IN /\ analysis' = <<result>>
        /\ candleData' = stampSignal(candleData, result.sentiment)
        /\ IF WorthRemembering(result.learningNode)
           THEN /\ memoryStream' = appendMemory(memoryStream, result.learningNode)
                /\ history' = Append(history, result.learningNode)
                /\ memDirty' = TRUE
           ELSE UNCHANGED <<memoryStream, history, memDirty>>
  /\ systemState' = "SCANNING"
  /\ cycles' = [cycles EXCEPT ![i].pc = "hotspots"]
  /\ UNCHANGED <<currentPrice, candleDataRef, currentPriceRef, feedVars, storage,
                 isLearning, analysisInProgressRef, chatsPending, mounted, exchTime,
                 calls>>

\* mutant: the finally block does not clear the flag
HotspotsSettle_NoRelease(i) ==
  /\ cycles[i].pc = "hotspots"
  /\ systemState' = "IDLE"
  /\ isLearning' = FALSE
  /\ cycles' = RemoveAt(cycles, i)
  /\ UNCHANGED <<candleVars, feedVars, memVars, analysis, analysisInProgressRef,
                 chatsPending, mounted, exchTime, calls>>

\* the hotspot collaborator settles (it never rejects): setHotspots, finally
HotspotsSettle(i) ==
  /\ cycles[i].pc = "hotspots"
  /\ systemState' = "IDLE"
  /\ isLearning' = FALSE
  /\ analysisInProgressRef' = FALSE
  /\ cycles' = RemoveAt(cycles, i)
  /\ UNCHANGED <<candleVars, feedVars, memVars, analysis, chatsPending, mounted,
                 exchTime, calls>>

\* ------------------------------------------------------------ chat
\* handleSendMessage up to its await
SendMessage ==
  /\ mounted
  /\ calls.events < MaxEvents
  /\ systemState' = "PROCESSING"
  /\ chatsPending' = chatsPending + 1
  /\ calls' = Bump("events")
  /\ UNCHANGED <<candleVars, feedVars, memVars, schedVars, mounted, exchTime>>

\* chatWithJarvis settles (it never rejects)
ChatReply ==
  /\ chatsPending > 0
  /\ systemState' = "IDLE"
  /\ chatsPending' = chatsPending - 1
  /\ UNCHANGED <<candleVars, feedVars, memVars, schedVars, mounted, exchTime, calls>>

\* a handshake that leaves the fallback timer running
clearTimeout_Noop(t) == t

\* clearTimeout(fallbackTimeout): a pending timer is cancelled, a timer
\* that already fired or was never set stays as it is
clearTimeout(t) == IF t = "armed" THEN "cleared" ELSE t

\* ------------------------------------------------------------ feed
\* ws.onopen of the Binance socket
BinanceOpen(i) ==
  /\ sockets[i].kind = "Binance"
  /\ sockets[i].readyState = "CONNECTING"
  /\ sockets' = [sockets EXCEPT ![i].readyState = "OPEN"]
  /\ dataSource' = "Binance"
  /\ systemState' = "IDLE"
  /\ fallbackTimeout' = clearTimeout(fallbackTimeout)
  /\ UNCHANGED <<candleVars, memVars, schedVars, wsRef, latency, chatsPending,
                 mounted, exchTime, calls>>

\* ws.onopen of a Coinbase socket: subscribe to the ticker channel
CoinbaseOpen(i) ==
  /\ sockets[i].kind = "Coinbase"
  /\ sockets[i].readyState = "CONNECTING"
  /\ sockets' = [sockets EXCEPT ![i].readyState = "OPEN", ![i].subscribed = @ + 1]
  /\ dataSource' = "Coinbase"
  /\ systemState' = "IDLE"
  /\ UNCHANGED <<candleVars, memVars, schedVars, wsRef, fallbackTimeout, latency,
                 chatsPending, mounted, exchTime, calls>>

\* the socket after its error event: the connection is gone
Errored(s) == [s EXCEPT !.readyState = "CLOSED", !.failed = FALSE]

\* ws.onerror of the Binance socket: connectCoinbase()
BinanceError(i) ==
  /\ sockets[i].kind = "Binance"
  /\ CanError(sockets[i])
  /\ LET c == connectCoinbase([sockets EXCEPT ![i] = Errored(sockets[i])], wsRef)
     IN sockets' = c.sockets /\ wsRef' = c.wsRef
  /\ UNCHANGED <<candleVars, memVars, schedVars, systemState, fallbackTimeout,
                 dataSource, latency, chatsPending, mounted, exchTime, calls>>

\* ws.onerror of a Coinbase socket: setSystemState(SystemState.ERROR)
CoinbaseError(i) ==
  /\ sockets[i].kind = "Coinbase"
  /\ CanError(sockets[i])
  /\ sockets' = [sockets EXCEPT ![i] = Errored(sockets[i])]
  /\ systemState' = "ERROR"
  /\ UNCHANGED <<candleVars, memVars, schedVars, wsRef, fallbackTimeout,
                 dataSource, latency, chatsPending, mounted, exchTime, calls>>

\* wsRef.current?.readyState !== WebSocket.OPEN
NotOpen(socks, ref) == ref = 0 \/ socks[ref].readyState # "OPEN"

\* the 5 s fallback timer expires
FallbackFires ==
  /\ fallbackTimeout = "armed"
  /\ fallbackTimeout' = "fired"
  /\ IF NotOpen(sockets, wsRef)
     THEN LET c == connectCoinbase(sockets, wsRef)
          IN sockets' = c.sockets /\ wsRef' = c.wsRef
     ELSE UNCHANGED <<sockets, wsRef>>
  /\ UNCHANGED <<candleVars, memVars, schedVars, systemState, dataSource, latency,
                 chatsPending, mounted, exchTime, calls>>

\* the exchange's clock is at least at the minute of the event it sends
LatestMinute(minute, time) ==
  IF JsLess(minute, BucketOf(time)) THEN BucketOf(time) ELSE minute

\* setLatency(now - data.E), when the event carries E
BinanceLatency(lag) == lag

\* setLatency(Math.max(0, now - serverTime)), when the ticker carries time
CoinbaseLatency(lag) == MathMax(0, lag)

\* ws.onmessage of the Binance socket, a kline event opening at t; hasE
\* tells whether the event carries its event time E
BinanceMessage(i, t, shape, hasE, lag) ==
  /\ sockets[i].kind = "Binance"
  /\ sockets[i].readyState = "OPEN"
  /\ calls.events < MaxEvents
  /\ latency' = IF hasE THEN BinanceLatency(lag) ELSE latency
  /\ currentPrice' = shape.close
  /\ candleData' = updateCandles(candleData,
        NewCandle(t, shape.open, shape.high, shape.low, shape.close, shape.volume))
  /\ exchTime' = LatestMinute(exchTime, t)
  /\ calls' = Bump("events")
  /\ UNCHANGED <<candleDataRef, currentPriceRef, memVars, schedVars, systemState,
                 sockets, wsRef, fallbackTimeout, dataSource, chatsPending,
                 mounted>>

\* ws.onmessage of a Coinbase socket, a ticker with a price; time is NaN
\* when the ticker has no time field
CoinbaseMessage(i, price, time, vol24h, lag) ==
  /\ sockets[i].kind = "Coinbase"
  /\ sockets[i].readyState = "OPEN"
  /\ calls.events < MaxEvents
  /\ latency' = IF time # NaN THEN CoinbaseLatency(lag) ELSE latency
  /\ currentPrice' = price
  /\ candleData' = aggregateCandleLocally(candleData, price, time,
                                          vol24h \div VOL_DAY_MINUTES)
  /\ exchTime' = LatestMinute(exchTime, time)
  /\ calls' = Bump("events")
  /\ UNCHANGED <<candleDataRef, currentPriceRef, memVars, schedVars, systemState,
                 sockets, wsRef, fallbackTimeout, dataSource, chatsPending,
                 mounted>>

\* ------------------------------------------------------------ specification
Next ==
  \/ Mount
  \/ Commit
  \/ \E i \in 1..Len(sockets) : BinanceOpen(i)
  \/ \E i \in 1..Len(sockets) : CoinbaseOpen(i)
  \/ \E i \in 1..Len(sockets) : BinanceError(i)
  \/ \E i \in 1..Len(sockets) : CoinbaseError(i)
  \/ FallbackFires
  \/ \E i \in 1..Len(sockets), e \in KlineEvents :
        BinanceMessage(i, exchTime + e.dt, e.shape, e.hasE, e.lag)
  \/ \E i \in 1..Len(sockets), e \in TickerEvents :
        CoinbaseMessage(i, e.price, TickerTime(e), e.vol24h, e.lag)
  \/ IntervalFires
  \/ ManualRun
  \/ \E i \in 1..Len(cycles), outcome \in Outcomes : AnalysisSettles(i, outcome)
  \/ \E i \in 1..Len(cycles) : HotspotsSettle(i)
  \/ SendMessage
  \/ ChatReply

Spec == Init /\ [][Next]_vars

\* The candle store and the indicators on their own ground: the cold start,
\* a window one candle short of the first analysis, and the full window.
StoreInit ==
  \/ InitCold
  \/ InitWarm(MIN_CANDLES - 1, 0, 0)
  \/ InitWarm(MAX_CANDLES, 0, 1)

StoreSpec == StoreInit /\ [][Next]_vars

\* The runs in which every collaborator call settles: the promise awaited
\* in runAnalysis is resolved by the service, which catches its own errors,
\* and the continuation is then run by the event loop.  The initial states
\* are the cold start and the full window.
LiveInit == InitCold \/ InitWarm(MAX_CANDLES, 0, 1)

LiveSpec ==
  /\ LiveInit
  /\ [][Next]_vars
  /\ WF_vars(\E i \in 1..Len(cycles), outcome \in Outcomes : AnalysisSettles(i, outcome))
  /\ WF_vars(\E i \in 1..Len(cycles) : HotspotsSettle(i))

\* ------------------------------------------------------------ properties
Range(seq) == {seq[i] : i \in 1..Len(seq)}

\* a candle without its indicator fields
Raw(c) ==
  [time |-> c.time, open |-> c.open, high |-> c.high, low |-> c.low,
   close |-> c.close, volume |-> c.volume, aiSignal |-> c.aiSignal]

LastTime(w) == IF Len(w) = 0 THEN NaN ELSE w[Len(w)].time

\* a feed message is delivered whose candle key is not the key of the last
\* candle of the window (or the window is empty)
FeedAppends ==
  /\ calls'.events = calls.events + 1
  /\ UNCHANGED <<schedVars, systemState, chatsPending>>
  /\ \E i \in 1..Len(sockets) :
       \/ \E e \in KlineEvents :
            /\ ~SameAsLast(candleData, exchTime + e.dt)
            /\ BinanceMessage(i, exchTime + e.dt, e.shape, e.hasE, e.lag)
       \/ \E e \in TickerEvents :
            /\ ~SameAsLast(candleData, BucketOf(TickerTime(e)))
            /\ CoinbaseMessage(i, e.price, TickerTime(e), e.vol24h, e.lag)

\* the three shapes of a window update
MergeShape ==
  \/ UNCHANGED candleData
  \/ /\ Len(candleData') = Len(candleData)
     /\ \A i \in 1..(Len(candleData) - 1) : Raw(candleData'[i]) = Raw(candleData[i])

AppendShape ==
  /\ Len(candleData') = Len(candleData) + 1
  /\ \A i \in 1..Len(candleData) : Raw(candleData'[i]) = Raw(candleData[i])

EvictShape ==
  /\ Len(candleData') = MAX_CANDLES
  /\ \A i \in 1..(MAX_CANDLES - 1) : Raw(candleData'[i]) = Raw(candleData[i + 1])

\* C1: the window never holds more than MAX_CANDLES candles; a feed message
\* that appends to a full window evicts exactly the oldest candle and keeps
\* the others in order, on a window that is not full it appends; any other
\* step leaves all candles but the last as they are.
C1_WindowBounded ==
  /\ Len(candleData) <= MAX_CANDLES
  /\ [][/\ Len(candleData') <= MAX_CANDLES
        /\ IF FeedAppends
           THEN IF Len(candleData) = MAX_CANDLES THEN EvictShape ELSE AppendShape
           ELSE MergeShape]_vars

\* C1 witness: the first candle of the warm window has been evicted
C1_Witness ==
  /\ Len(candleData) = MAX_CANDLES
  /\ JsLess(INTERVAL_MS, candleData[1].time)

\* C2: the openTime values of the window are strictly increasing in every
\* reachable state (the claim as stated; late and time-less messages break it).
C2_StrictlyIncreasing ==
  \A i \in 1..(Len(candleData) - 1) :
    JsLess(candleData[i].time, candleData[i + 1].time)

\* a call of runAnalysis, from any trigger (the startup trigger calls it
\* from the effects of a commit)
RunCalled == IntervalFires \/ ManualRun \/ Commit

\* C3: at most one analysis cycle is in flight, the flag is set exactly
\* while one is, and a call of runAnalysis made while a cycle is in flight
\* starts nothing, calls no collaborator and changes neither the window,
\* the analysis result nor the memory.
C3_SingleFlight ==
  /\ [](Len(cycles) <= 1 /\ (analysisInProgressRef <=> Len(cycles) = 1))
  /\ [][analysisInProgressRef /\ RunCalled =>
          UNCHANGED <<cycles, candleData, analysis, memoryStream, history,
                      systemState, isLearning, analysisInProgressRef>>]_vars

\* C3 witness: a cycle is in flight while the triggers can still fire
C3_Witness ==
  /\ Len(cycles) = 1
  /\ analysisInProgressRef
  /\ calls.events < MaxEvents
  /\ Len(candleDataRef) >= MIN_CANDLES

\* C4: with no analysis result yet and nothing in flight, the commit that
\* brings the window to MIN_CANDLES candles starts a cycle from the startup
\* trigger, and no cycle was started by it before (the claim as stated; the
\* trigger tests length > 10).
C4_StartupAtTen ==
  /\ [](Len(candleDataRef) < MIN_CANDLES => calls.startups = 0)
  /\ [][/\ Len(candleDataRef) < MIN_CANDLES
        /\ Len(candleDataRef') = MIN_CANDLES
        /\ analysis = <<>>
        /\ ~analysisInProgressRef
        => calls'.startups = calls.startups + 1]_vars

\* C5: once the status is Degraded (SystemState.ERROR, set by the error of
\* the secondary) it stays Degraded (the claim as stated; runAnalysis, the
\* chat and a later open overwrite it).
C5_DegradedForever == [][systemState = "ERROR" => systemState' = "ERROR"]_vars

\* the supervisor has left the primary: wsRef holds a Coinbase socket
LeftPrimary == wsRef # 0 /\ sockets[wsRef].kind = "Coinbase"

ConnectingSecondary == LeftPrimary /\ sockets[wsRef].readyState = "CONNECTING"

ConnectedSecondary ==
  /\ LeftPrimary
  /\ sockets[wsRef].readyState = "OPEN"
  /\ sockets[wsRef].subscribed = 1
  /\ dataSource = "Coinbase"
  /\ systemState = "IDLE"

\* C6: an error of the Binance socket, connecting or open, and the expiry
\* of the fallback timer while the socket held is not open, leave the
\* supervisor Connecting(Secondary); the open of a Coinbase socket leaves it
\* Connected(Secondary), subscribed to the ticker channel.
C6_Failover ==
  [][/\ (\E i \in 1..Len(sockets) : BinanceError(i)) => ConnectingSecondary'
     /\ (FallbackFires /\ NotOpen(sockets, wsRef)) => ConnectingSecondary'
     /\ \A i \in 1..Len(sockets) :
          CoinbaseOpen(i) => (wsRef' = i /\ ConnectedSecondary')]_vars

\* C6 witness: Connected(Secondary) after the Binance socket has failed
C6_Witness == ConnectedSecondary /\ sockets[1].readyState = "CLOSED"

\* C7: the failover opens at most one secondary connection in a run (the
\* claim as stated; the timer is not cleared by the failover).
C7_OneSecondary ==
  Cardinality({i \in 1..Len(sockets) : sockets[i].kind = "Coinbase"}) <= 1

\* C8: once the supervisor has left the primary, no step creates a Binance
\* socket, opens one, or sets the data source to Binance, and wsRef keeps
\* holding a Coinbase socket.
C8_NoClimbBack ==
  [][LeftPrimary =>
       /\ LeftPrimary'
       /\ \A i \in 1..Len(sockets') :
            sockets'[i].kind = "Binance" =>
              /\ i <= Len(sockets)
              /\ sockets'[i].readyState = "OPEN" => sockets[i].readyState = "OPEN"
       /\ dataSource' = "Binance" => dataSource = "Binance"]_vars

\* C8 witness: the secondary is the data source, the primary socket is gone
C8_Witness ==
  /\ LeftPrimary
  /\ dataSource = "Coinbase"
  /\ sockets[1].kind = "Binance"
  /\ sockets[1].readyState # "OPEN"

\* C9: the memory never holds more than MEMORY_CAP lessons, and it holds
\* the last MEMORY_CAP lessons ever put into it, in the order they were put.
C9_MemoryBounded ==
  /\ Len(memoryStream) <= MEMORY_CAP
  /\ memoryStream = SliceLast(history, MEMORY_CAP)

\* C9 witness: one lesson more than the capacity was put; the first is gone
C9_Witness ==
  /\ Len(history) = MEMORY_CAP + 1
  /\ Len(memoryStream) = MEMORY_CAP
  /\ history[1] \notin Range(memoryStream)

\* C10: no step removes a lesson from the durable list except by evicting
\* it at capacity (the claim as stated; the persist effect of the mount
\* writes the initial [] before the loaded list is applied).
C10_NoDurableLoss ==
  [][\A e \in Range(storage.items) :
       e \in Range(storage'.items) \/ Len(storage'.items) = MEMORY_CAP]_vars

\* the open, high, low, close and volume of a candle
Ohlcv(c) ==
  [open |-> c.open, high |-> c.high, low |-> c.low, close |-> c.close,
   volume |-> c.volume]

\* the positions of the window that hold the key t
WithKey(w, t) == {k \in 1..Len(w) : StrictEq(w[k].time, t)}

\* C11: a kline whose openTime is the key of the last candle (as it is for
\* the second of two consecutive klines of one openTime) leaves exactly one
\* candle with that key in the window: the last one, with the open, high,
\* low, close and volume of this kline and the signal the candle carried
\* before (the claim as stated; a late kline repeats a key that the window
\* already holds further back).
C11_OverwriteInPlace ==
  [][\A i \in 1..Len(sockets), e \in KlineEvents :
       (/\ SameAsLast(candleData, exchTime + e.dt)
        /\ BinanceMessage(i, exchTime + e.dt, e.shape, e.hasE, e.lag))
       => /\ Len(candleData') = Len(candleData)
          /\ WithKey(candleData', exchTime + e.dt) = {Len(candleData')}
          /\ Ohlcv(candleData'[Len(candleData')]) = e.shape
          /\ candleData'[Len(candleData')].aiSignal
               = candleData[Len(candleData)].aiSignal]_vars

\* the slice of the rolling 24 h volume that one tick contributes
VolumeHint(vol24h) == vol24h \div (VOL_DAY_MINUTES * VOL_MINUTE_SECONDS)

\* C12: a tick whose bucket is the key of the last candle updates that
\* candle in place: key and open unchanged, high the larger of the old high
\* and the price, low the smaller of the old low and the price, close the
\* price, volume the old volume plus the tick's volume hint; the window
\* does not grow.
C12_TickMergesInPlace ==
  [][\A i \in 1..Len(sockets), e \in TickerEvents :
       (/\ SameAsLast(candleData, BucketOf(TickerTime(e)))
        /\ CoinbaseMessage(i, e.price, TickerTime(e), e.vol24h, e.lag))
       => LET old == candleData[Len(candleData)]
              new == candleData'[Len(candleData')]
          IN /\ Len(candleData') = Len(candleData)
             /\ new.time = old.time
             /\ new.open = old.open
             /\ new.high >= old.high /\ new.high >= e.price
             /\ new.high \in {old.high, e.price}
             /\ new.low <= old.low /\ new.low <= e.price
             /\ new.low \in {old.low, e.price}
             /\ new.close = e.price
             /\ new.volume = old.volume + VolumeHint(e.vol24h)]_vars

\* C12 witness: a tick at 130 opened a candle and a tick at 90 of the same
\* minute was merged into it
C12_Witness ==
  /\ dataSource = "Coinbase"
  /\ Len(candleData) > 0
  /\ Ohlcv(candleData[Len(candleData)])
       = [open |-> 130, high |-> 130, low |-> 90, close |-> 90,
          volume |-> VolumeHint(172800)]

\* C13: a tick whose bucket is not the key of the last candle, or that
\* finds the window empty, appends a candle whose openTime is the tick's
\* time rounded down to the interval, whose open, high, low and close are
\* the price and whose volume is the tick's volume hint; that openTime is a
\* multiple of the interval (the claim as stated; a ticker without a time
\* field opens a candle whose openTime is NaN).
C13_TickAppendsAligned ==
  [][\A i \in 1..Len(sockets), e \in TickerEvents :
       (/\ ~SameAsLast(candleData, BucketOf(TickerTime(e)))
        /\ CoinbaseMessage(i, e.price, TickerTime(e), e.vol24h, e.lag))
       => LET new == candleData'[Len(candleData')]
          IN /\ IF Len(candleData) = MAX_CANDLES THEN EvictShape ELSE AppendShape
             /\ Ohlcv(new) = [open |-> e.price, high |-> e.price, low |-> e.price,
                              close |-> e.price, volume |-> VolumeHint(e.vol24h)]
             /\ new.time # NaN
             /\ new.time % INTERVAL_MS = 0
             /\ new.time <= TickerTime(e)
             /\ TickerTime(e) < new.time + INTERVAL_MS]_vars

\* high >= max(open, close) and low <= min(open, close)
WellFormed(c) ==
  /\ c.high >= c.open /\ c.high >= c.close
  /\ c.low <= c.open /\ c.low <= c.close

\* C14: every candle of the window has its high at or above its open and
\* close and its low at or below them, in every reachable state.
C14_HighLowBracket == \A k \in 1..Len(candleData) : WellFormed(candleData[k])

\* C14 witness: a tick at 90 was merged into a candle that the primary feed
\* had built (the warm window's last minute), moving its low and close
C14_Witness ==
  /\ dataSource = "Coinbase"
  /\ \E k \in 1..Len(candleData) :
       /\ candleData[k].time = Len(candleDataRef) * INTERVAL_MS
       /\ Ohlcv(candleData[k])
            = [open |-> NominalPrice, high |-> NominalPrice, low |-> 90,
               close |-> 90, volume |-> 1]

\* the periods of the three indicators
Periods == {EMA_FAST, EMA_MID, EMA_SLOW}

\* C15: calculateEMA over the window returns one entry per candle; with
\* fewer candles than the period every entry is undefined, otherwise the
\* entries before index period - 1 are undefined and all later ones defined.
C15_EmaShape ==
  \A p \in Periods :
    LET r == calculateEMA(candleData, p)
    IN /\ Len(r) = Len(candleData)
       /\ \A k \in 1..Len(r) :
            (r[k] = Undefined) <=> (Len(candleData) < p \/ k < p)

\* C15 witness: a window shorter than one period and longer than another,
\* with a candle past the seed of the short period
C15_Witness ==
  /\ Len(candleData) > EMA_FAST
  /\ Len(candleData) < EMA_MID
  /\ candleData[Len(candleData)].close # NominalPrice

\* C16: with at least `period` candles, the entry of calculateEMA at index
\* period - 1 is the mean of the first `period` closes, and every later
\* entry is close * k + previous * (1 - k) with k = 2 / (period + 1); both
\* to the unit in which the model keeps prices.
C16_EmaRecurrence ==
  \A p \in Periods :
    Len(candleData) >= p =>
      LET r == calculateEMA(candleData, p)
          sum == SumClose(candleData, 1, p)
      IN /\ p * r[p] <= sum /\ sum < p * (r[p] + 1)
         /\ \A k \in (p + 1)..Len(candleData) :
              LET next == 2 * candleData[k].close + (p - 1) * r[k - 1]
              IN (p + 1) * r[k] <= next /\ next < (p + 1) * (r[k] + 1)

\* C16 witness: past the seed of the fast indicator a close above the
\* nominal price has pulled the average up
C16_Witness ==
  /\ Len(candleData) > EMA_FAST
  /\ calculateEMA(candleData, EMA_FAST)[Len(candleData)] > NominalPrice
  /\ calculateEMA(candleData, EMA_FAST)[EMA_FAST] = NominalPrice

\* C17: in every reachable state each candle carries, for each of the three
\* periods, the entry of calculateEMA over the whole current window at the
\* candle's index: undefined before index period - 1, defined from there on.
C17_IndicatorsCurrent ==
  LET ema7 == calculateEMA(candleData, EMA_FAST)
      ema25 == calculateEMA(candleData, EMA_MID)
      ema99 == calculateEMA(candleData, EMA_SLOW)
  IN \A k \in 1..Len(candleData) :
       /\ candleData[k].ema7 = ema7[k]
       /\ candleData[k].ema25 = ema25[k]
       /\ candleData[k].ema99 = ema99[k]
       /\ (candleData[k].ema7 = Undefined) <=> (k < EMA_FAST)
       /\ (candleData[k].ema25 = Undefined) <=> (k < EMA_MID)
       /\ (candleData[k].ema99 = Undefined) <=> (k < EMA_SLOW)

\* C17 witness: a full window after an eviction, the slow indicator present
\* on the last candle and the fast one moved by a close off the nominal
C17_Witness ==
  /\ Len(candleData) = MAX_CANDLES
  /\ JsLess(INTERVAL_MS, candleData[1].time)
  /\ candleData[MAX_CANDLES].ema99 # Undefined
  /\ candleData[MAX_CANDLES].ema7 # NominalPrice
  /\ candleData[EMA_SLOW - 1].ema99 = Undefined

\* a feed message is delivered whose candle key is the key of the last
\* candle of the window
FeedMerges ==
  /\ calls'.events = calls.events + 1
  /\ UNCHANGED <<schedVars, systemState, chatsPending>>
  /\ \E i \in 1..Len(sockets) :
       \/ \E e \in KlineEvents :
            /\ SameAsLast(candleData, exchTime + e.dt)
            /\ BinanceMessage(i, exchTime + e.dt, e.shape, e.hasE, e.lag)
       \/ \E e \in TickerEvents :
            /\ SameAsLast(candleData, BucketOf(TickerTime(e)))
            /\ CoinbaseMessage(i, e.price, TickerTime(e), e.vol24h, e.lag)

\* key and signal of a candle
Tag(c) == [time |-> c.time, aiSignal |-> c.aiSignal]

\* C18: a feed message that updates the last candle in place leaves the
\* signal of every candle, the last included, as it was; one that appends
\* leaves the signal of every candle it keeps as it was (the oldest may be
\* evicted) and puts no signal on the candle it appends.
C18_SignalStays ==
  [][/\ FeedMerges =>
          /\ Len(candleData') = Len(candleData)
          /\ \A k \in 1..Len(candleData) : Tag(candleData'[k]) = Tag(candleData[k])
     /\ FeedAppends =>
          LET d == Len(candleData) + 1 - Len(candleData')
          IN /\ d \in {0, 1}
             /\ \A k \in 1..(Len(candleData') - 1) :
                  Tag(candleData'[k]) = Tag(candleData[k + d])
             /\ candleData'[Len(candleData')].aiSignal = "none"]_vars

\* C18 witness: the last candle was committed with a signal and its first
\* close, and has since been updated in place by a kline of the same
\* minute; the signal is still on it
C18_Witness ==
  /\ Len(candleData) > 0
  /\ Len(candleDataRef) = Len(candleData)
  /\ LET now == candleData[Len(candleData)]
         seen == candleDataRef[Len(candleDataRef)]
     IN /\ seen.time = now.time
        /\ seen.aiSignal = "bullish"
        /\ now.aiSignal = "bullish"
        /\ seen.close = NominalPrice
        /\ Ohlcv(now) = RangeShape

\* a candle without its signal
Unsigned(c) == [c EXCEPT !.aiSignal = "none"]

\* C19: when an analysis result is applied, the window keeps its length,
\* every candle but the last stays as it is, and the last candle (the one
\* that is last at that moment) changes in nothing but its signal; on an
\* empty window the stamp does nothing.
C19_TagLastOnly ==
  /\ \A sentiment \in {"BULLISH", "BEARISH", "NEUTRAL", "INTERFERENCE"} :
       stampSignal(<<>>, sentiment) = <<>>
  /\ [][\A i \in 1..Len(cycles), outcome \in Outcomes :
          AnalysisSettles(i, outcome) =>
            /\ Len(candleData') = Len(candleData)
            /\ \A k \in 1..(Len(candleData) - 1) : candleData'[k] = candleData[k]
            /\ Unsigned(candleData'[Len(candleData)])
                 = Unsigned(candleData[Len(candleData)])]_vars

\* C19 witness: a result was applied to a window that had grown since the
\* cycle's snapshot; the signal is on the new last candle and not on the
\* candle that was last in the snapshot
C19_Witness ==
  /\ Len(cycles) = 1
  /\ cycles[1].pc = "hotspots"
  /\ Len(candleData) = Len(candleDataRef) + 1
  /\ candleData[Len(candleData)].aiSignal = "bearish"
  /\ candleData[Len(candleData) - 1].aiSignal = "none"

\* C20: when every collaborator call settles, a cycle that has set the flag
\* leads to a state with the flag cleared, the system state Idle and the
\* learning mark off, whatever the analysis collaborator did; the step that
\* ends a cycle leaves the guard of runAnalysis open, so the next trigger
\* starts a cycle.
C20_CycleEnds ==
  /\ analysisInProgressRef
       ~> (~analysisInProgressRef /\ systemState = "IDLE" /\ ~isLearning)
  /\ [][\A i \in 1..Len(cycles) :
          HotspotsSettle(i) =>
            /\ cycles' = <<>>
            /\ ~RunGuard(analysisInProgressRef', Len(candleDataRef'))]_vars

\* C20 witness: a cycle whose analysis call failed has ended, its result is
\* shown, and the next trigger has started a new cycle
C20_Witness ==
  /\ analysis = <<[sentiment |-> "INTERFERENCE", learningNode |-> UnreachableLesson]>>
  /\ Len(cycles) = 1
  /\ cycles[1].pc = "analyze"
  /\ analysisInProgressRef

\* C21: when the analysis collaborator cannot be reached the cycle gets the
\* degraded result (sentiment INTERFERENCE), when its reply cannot be parsed
\* the cycle gets the neutral result (sentiment NEUTRAL); the two differ,
\* and in both cases the cycle goes on to the hotspot call.
C21_FailureResults ==
  [][\A i \in 1..Len(cycles), outcome \in Outcomes :
       AnalysisSettles(i, outcome) =>
         /\ outcome.kind = "unreachable" =>
              analysis' = <<[sentiment |-> "INTERFERENCE",
                             learningNode |-> UnreachableLesson]>>
         /\ outcome.kind = "unparsable" =>
              analysis' = <<[sentiment |-> "NEUTRAL",
                             learningNode |-> ParseFailLesson]>>
         /\ analysis'[1].sentiment \in {"INTERFERENCE", "NEUTRAL", "BULLISH", "BEARISH",
                                      "BEARISH-BULLISH", "SIDEWAYS"}
         /\ cycles'[i].pc = "hotspots"
         /\ systemState' = "SCANNING"
         /\ analysisInProgressRef']_vars

\* C21 witness: the collaborator was unreachable, the degraded result is
\* shown and the cycle is at its hotspot call
C21_Witness ==
  /\ Len(cycles) = 1
  /\ cycles[1].pc = "hotspots"
  /\ analysis # <<>>
  /\ analysis[1].sentiment = "INTERFERENCE"
  /\ systemState = "SCANNING"

\* C22: a feed message that carries its event time sets the latency to the
\* local time minus the event time, or to 0 if that is negative, whichever
\* feed it comes from; the latency is never negative (the claim as stated;
\* the Binance handler stores the difference as it is).
C22_LatencyClamped ==
  /\ latency >= 0
  /\ [][/\ \A i \in 1..Len(sockets), e \in KlineEvents :
            (e.hasE /\ BinanceMessage(i, exchTime + e.dt, e.shape, e.hasE, e.lag))
            => latency' = MathMax(0, e.lag)
        /\ \A i \in 1..Len(sockets), e \in TickerEvents :
            (e.hasTime /\ CoinbaseMessage(i, e.price, TickerTime(e), e.vol24h, e.lag))
            => latency' = MathMax(0, e.lag)]_vars

\* an error event of a socket, of either feed
TransportError ==
  \E i \in 1..Len(sockets) : BinanceError(i) \/ CoinbaseError(i)

\* a trigger of the scheduler, by the timer or by hand
Trigger == IntervalFires \/ ManualRun

\* C23: an error event of either connection leaves the candle window, the
\* current price and the memory as they are, and the scheduler with them;
\* after the secondary has failed the guard of runAnalysis is open, and a
\* trigger starts a cycle, when the snapshot holds enough candles and no
\* cycle is in flight.
C23_DegradedServes ==
  /\ []((/\ systemState = "ERROR"
         /\ ~analysisInProgressRef
         /\ Len(candleDataRef) >= MIN_CANDLES)
        => ~RunGuard(analysisInProgressRef, Len(candleDataRef)))
  /\ [][/\ TransportError =>
             UNCHANGED <<candleData, currentPrice, memoryStream, candleDataRef,
                         currentPriceRef, schedVars, mounted>>
        /\ (/\ systemState = "ERROR"
            /\ Trigger
            /\ ~analysisInProgressRef
            /\ Len(candleDataRef) >= MIN_CANDLES)
           => /\ Len(cycles') = Len(cycles) + 1
              /\ UNCHANGED <<candleData, currentPrice, memoryStream>>]_vars

\* C23 witness: both sockets have failed, the full window is still there,
\* and a trigger that came after the failure has started a cycle
C23_Witness ==
  /\ Len(sockets) = 2
  /\ sockets[1].readyState = "CLOSED"
  /\ sockets[2].readyState = "CLOSED"
  /\ Len(candleData) = MAX_CANDLES
  /\ systemState = "ANALYZING"
  /\ Len(cycles) = 1

\* C24: while the hotspot call of a cycle is in flight, the result of the
\* cycle's analysis is shown, its signal (if it has one) is on a candle of
\* the window and its lesson (if worth remembering) is in the memory; the
\* step that begins the hotspot call is the one that applies them, and the
\* end of the hotspot call changes neither the window nor the memory.
C24_HotspotsAfterEffects ==
  /\ [](\A i \in 1..Len(cycles) :
          cycles[i].pc = "hotspots" =>
            /\ analysis # <<>>
            /\ SignalOf(analysis[1].sentiment) # "none" =>
                 \E k \in 1..Len(candleData) :
                   candleData[k].aiSignal = SignalOf(analysis[1].sentiment)
            /\ WorthRemembering(analysis[1].learningNode) =>
                 /\ Len(memoryStream) > 0
                 /\ memoryStream[Len(memoryStream)] = analysis[1].learningNode)
  /\ [][\A i \in 1..Len(cycles) :
          /\ (cycles[i].pc = "analyze" /\ Len(cycles') = Len(cycles)
                 /\ cycles'[i].pc = "hotspots")
             => \E outcome \in Outcomes : AnalysisSettles(i, outcome)
          /\ HotspotsSettle(i) => UNCHANGED <<candleData, memoryStream, analysis>>]_vars

\* C24 witness: the hotspot call is in flight, the bullish signal of the
\* cycle is on the last candle and its lesson is the newest of the memory
C24_Witness ==
  /\ Len(cycles) = 1
  /\ cycles[1].pc = "hotspots"
  /\ analysis # <<>>
  /\ analysis[1].sentiment = "BULLISH"
  /\ candleData[Len(candleData)].aiSignal = "bullish"
  /\ memoryStream # <<>>
  /\ memoryStream[Len(memoryStream)] = analysis[1].learningNode

\* the sockets that are connecting or open
Active == {i \in 1..Len(sockets) : sockets[i].readyState \in {"CONNECTING", "OPEN"}}

\* an open, message or error event of socket i
SocketEvent(i) ==
  \/ BinanceOpen(i)
  \/ CoinbaseOpen(i)
  \/ BinanceError(i)
  \/ CoinbaseError(i)
  \/ \E e \in KlineEvents :
       BinanceMessage(i, exchTime + e.dt, e.shape, e.hasE, e.lag)
  \/ \E e \in TickerEvents :
       CoinbaseMessage(i, e.price, TickerTime(e), e.vol24h, e.lag)

\* C25: at most one socket is connecting or open, and it is the one held
\* in wsRef; an event of a socket that is no longer held changes neither
\* the window, the price, the data source, the system state nor the socket
\* that is held (the claim as stated; a socket closed while connecting
\* still delivers its error event, and the handler acts on it).
C25_OneConnection ==
  /\ [](Active \subseteq {wsRef})
  /\ [][\A i \in 1..Len(sockets) :
          (i # wsRef /\ SocketEvent(i))
          => /\ UNCHANGED <<candleData, currentPrice, dataSource, systemState, wsRef>>
             /\ Len(sockets') = Len(sockets)
             /\ sockets'[wsRef] = sockets[wsRef]]_vars

ConnectedPrimary ==
  wsRef # 0 /\ sockets[wsRef].kind = "Binance" /\ sockets[wsRef].readyState = "OPEN"

\* C26: the open of the primary cancels the fallback timer, so while the
\* primary is connected the timer is not pending and cannot expire; the only
\* step that opens the secondary from there is a transport error of the
\* primary socket.
C26_OpenCancelsFallback ==
  /\ [](ConnectedPrimary => (fallbackTimeout = "cleared" /\ ~ENABLED FallbackFires))
  /\ [][/\ \A i \in 1..Len(sockets) :
             (fallbackTimeout = "armed" /\ BinanceOpen(i))
             => (fallbackTimeout' = "cleared" /\ ConnectedPrimary')
        /\ (ConnectedPrimary /\ (LeftPrimary' \/ Len(sockets') > Len(sockets)))
           => (BinanceError(wsRef) /\ ConnectingSecondary')]_vars

\* a cold start whose primary opened in time and has delivered one candle
C26_Witness ==
  /\ ConnectedPrimary
  /\ fallbackTimeout = "cleared"
  /\ Len(sockets) = 1
  /\ dataSource = "Binance"
  /\ Len(candleData) = 1
  /\ calls.events = 1

\* C27: when a result is applied to a non-empty window, a sentiment that
\* contains the bullish keyword puts 'bullish' on the last candle; otherwise
\* one that contains the bearish keyword puts 'bearish' on it; a sentiment
\* with neither keyword (neutral, degraded, unrecognized) leaves the signal
\* of the last candle as it was.  Nothing else in the window changes.
C27_KeywordClassification ==
  [][\A i \in 1..Len(cycles), outcome \in Outcomes :
       (AnalysisSettles(i, outcome) /\ candleData # <<>>)
       => LET text == analysis'[1].sentiment
              before == candleData[Len(candleData)]
              after == candleData'[Len(candleData')]
          IN /\ Len(candleData') = Len(candleData)
             /\ Unsigned(after) = Unsigned(before)
             /\ \A k \in 1..Len(candleData) - 1 : candleData'[k] = candleData[k]
             /\ "BULLISH" \in Words(text) => after.aiSignal = "bullish"
             /\ ("BULLISH" \notin Words(text) /\ "BEARISH" \in Words(text))
                => after.aiSignal = "bearish"
             /\ Words(text) \cap {"BULLISH", "BEARISH"} = {}
                => after.aiSignal = before.aiSignal]_vars

\* an unrecognized sentiment has been applied over an existing signal
C27_Witness ==
  /\ analysis # <<>> /\ analysis[1].sentiment \in {"SIDEWAYS", "NEUTRAL", "INTERFERENCE"}
  /\ candleData # <<>> /\ candleData[Len(candleData)].aiSignal # "none"

\* C28: the step that applies an analysis result appends the returned
\* lesson to the memory (keeping the newest MEMORY_CAP) exactly when the
\* lesson is longer than LESSON_MIN_LEN characters, and leaves the memory as
\* it was otherwise; the rest of the cycle (the hotspot refresh) never
\* touches the memory, so a cycle appends at most one entry.
C28_LessonThreshold ==
  [][\A i \in 1..Len(cycles) :
       /\ \A outcome \in Outcomes :
            AnalysisSettles(i, outcome)
            => LET lesson == analysis'[1].learningNode
               IN IF lesson.len > LESSON_MIN_LEN
                  THEN /\ memoryStream' # <<>>
                       /\ memoryStream'[Len(memoryStream')] = lesson
                       /\ Len(memoryStream')
                            = IF Len(memoryStream) < MEMORY_CAP
                              THEN Len(memoryStream) + 1 ELSE MEMORY_CAP
                       /\ history' = Append(history, lesson)
                  ELSE UNCHANGED <<memoryStream, history>>
       /\ HotspotsSettle(i) => UNCHANGED <<memoryStream, history>>]_vars

\* a cycle returned a lesson of exactly the threshold length after an
\* earlier cycle had its lesson recorded
C28_Witness ==
  /\ analysis # <<>> /\ analysis[1].learningNode.len = LESSON_MIN_LEN
  /\ history # <<>> /\ history[Len(history)].len > LESSON_MIN_LEN
  /\ memoryStream # <<>>
  /\ memoryStream[Len(memoryStream)] = history[Len(history)]

\* the window is strictly increasing in openTime and every openTime is a
\* multiple of the interval
WindowOrdered(w) ==
  /\ \A k \in 1..Len(w) : w[k].time # NaN /\ w[k].time % INTERVAL_MS = 0
  /\ \A k \in 1..(Len(w) - 1) : JsLess(w[k].time, w[k + 1].time)

\* a feed message without its event-time field is delivered
TimelessMessage ==
  \E i \in 1..Len(sockets) :
    \/ \E e \in KlineEvents :
         ~e.hasE /\ BinanceMessage(i, exchTime + e.dt, e.shape, e.hasE, e.lag)
    \/ \E e \in TickerEvents :
         ~e.hasTime /\ CoinbaseMessage(i, e.price, TickerTime(e), e.vol24h, e.lag)

\* C29: a feed message without its event-time field leaves the latency, the
\* sockets and the system state as they were, and a window that was ordered
\* and aligned before the message is so after it (the claim as stated; a
\* ticker without `time` is aggregated under the key NaN).
C29_TimelessMessage ==
  [][TimelessMessage
     => /\ UNCHANGED <<latency, sockets, wsRef, systemState, dataSource>>
        /\ WindowOrdered(candleData) => WindowOrdered(candleData')]_vars

\* C30: runAnalysis returns at its guard whenever the snapshot of the window
\* holds fewer than MIN_CANDLES candles, and passes it when the snapshot
\* holds at least MIN_CANDLES and no cycle is in flight.  A timer or manual
\* call made with a short snapshot changes nothing: no flag, no cycle, no
\* state change, no signal, no memory entry; one made with a full snapshot
\* and the flag clear starts a cycle.  No step, the startup trigger
\* included, starts a cycle over a snapshot of fewer than MIN_CANDLES.
C30_ShortWindowNoRun ==
  /\ [](IF Len(candleDataRef) < MIN_CANDLES
        THEN RunGuard(analysisInProgressRef, Len(candleDataRef))
        ELSE ~analysisInProgressRef
             => ~RunGuard(analysisInProgressRef, Len(candleDataRef)))
  /\ [][/\ (Trigger /\ Len(candleDataRef) < MIN_CANDLES)
            => UNCHANGED <<analysisInProgressRef, cycles, systemState, isLearning,
                           analysis, candleData, memoryStream, history, calls>>
        /\ (Trigger /\ Len(candleDataRef) >= MIN_CANDLES /\ ~analysisInProgressRef)
           => /\ analysisInProgressRef'
              /\ cycles' = Append(cycles, [pc |-> "analyze"])
              /\ systemState' = "ANALYZING"
        /\ Len(cycles') > Len(cycles) => Len(candleDataRef') >= MIN_CANDLES]_vars

\* the window grew from 9 to exactly MIN_CANDLES candles and a timer or
\* manual call (not the startup trigger) then started the first cycle
C30_Witness ==
  /\ Len(candleDataRef) = MIN_CANDLES
  /\ cycles = <<[pc |-> "analyze"]>>
  /\ analysisInProgressRef
  /\ analysis = <<>>
  /\ calls.startups = 0
  /\ calls.events = 2

\* the outcomes in which the collaborator failed or its reply was unusable
Failures == {outcome \in Outcomes : outcome.kind \in {"unreachable", "unparsable"}}

\* C31: applying the result of an unreachable collaborator or of an
\* unparsable reply leaves the memory and every candle of the window,
\* signals included, as they were; every step that records a lesson applies
\* a parsed reply.
C31_FailuresLeaveFeedback ==
  [][/\ \A i \in 1..Len(cycles), outcome \in Failures :
          AnalysisSettles(i, outcome)
          => UNCHANGED <<memoryStream, history, memDirty, candleData>>
     /\ (mounted /\ history' # history)
        => \E i \in 1..Len(cycles), outcome \in Outcomes \ Failures :
             /\ AnalysisSettles(i, outcome)
             /\ history' = Append(history, analysis'[1].learningNode)]_vars

\* the collaborator failed in a cycle that found a signal on the last candle
\* and a lesson in the memory, and both are still there
C31_Witness ==
  /\ Len(cycles) = 1 /\ cycles[1].pc = "hotspots"
  /\ analysis # <<>> /\ analysis[1].learningNode \in {ParseFailLesson, UnreachableLesson}
  /\ candleData # <<>> /\ candleData[Len(candleData)].aiSignal = "bullish"
  /\ memoryStream # <<>> /\ ~memDirty

\* the price agrees with the close of the last candle of the window
PriceAtClose(price, w) == w # <<>> => price = w[Len(w)].close

\* a message of either feed is processed
FeedMessage ==
  \E i \in 1..Len(sockets) :
    \/ \E e \in KlineEvents :
         BinanceMessage(i, exchTime + e.dt, e.shape, e.hasE, e.lag)
    \/ \E e \in TickerEvents :
         CoinbaseMessage(i, e.price, TickerTime(e), e.vol24h, e.lag)

\* C32: the current price equals the close of the last candle of the window
\* in every reachable state with a non-empty window, and the same holds of
\* the two refs that runAnalysis reads; every processed feed message leaves
\* a non-empty window whose last close is the price it set.
C32_PriceIsLastClose ==
  /\ [](PriceAtClose(currentPrice, candleData))
  /\ [](PriceAtClose(currentPriceRef, candleDataRef))
  /\ [][FeedMessage
        => /\ candleData' # <<>>
           /\ currentPrice' = candleData'[Len(candleData')].close]_vars

\* a cycle is in flight whose snapshot was taken after a tick at 90 was
\* merged into the last candle
C32_Witness ==
  /\ dataSource = "Coinbase"
  /\ Len(cycles) = 1 /\ cycles[1].pc = "analyze"
  /\ candleDataRef # <<>>
  /\ currentPriceRef = 90
  /\ candleDataRef[Len(candleDataRef)].close = 90
  /\ candleDataRef[Len(candleDataRef)].open # 90

====
